---- MODULE Spec2Model ----
(***************************************************************************)
(* A model of src/app.py: the duplicate checker's normalizer, duplicate    *)
(* partitioner and quality analyzer, and the request handlers (index,      *)
(* download, reset) with the session and the files they keep.              *)
(*                                                                         *)
(* Representation.  A string is a sequence of one-character strings, so    *)
(* that strip/lower/regex-replace are computed character by character.     *)
(* A cell is a record [kind, s, n]:                                        *)
(*   kind = "str"   s is the text                                          *)
(*   kind = "nan"   the loader's missing value (float NaN)                 *)
(*   kind = "NA"    pd.NA, the marker normalization writes                 *)
(*   kind = "float" n is the value in units of 10^-InputDecimals           *)
(*   kind = "int"   n is the value                                         *)
(* A table (DataFrame) is [columns, dtype, data]; a row of data is         *)
(* [index, cells] with index the RangeIndex label the loader gave it.      *)
(***************************************************************************)
EXTENDS Integers, Sequences, FiniteSets, TLC

\* ------------------------------------------------------------------ bounds

\* Longest table the user's file holds.
MaxRows == 3

\* ------------------------------------------------------- program constants

\* df.round(6), app.py line 126.
RoundDecimals == 6
\* round(..., 2) of blank_percentage, app.py line 48.
PctDecimals == 2
\* df.head(20), the styled preview, app.py lines 358 and 379.
PreviewRows == 20
\* duplicates.head(100), the duplicate listing, app.py line 348.
DupListRows == 100

\* Float inputs carry one decimal more than the rounding keeps.
InputDecimals == RoundDecimals + 1

RECURSIVE Pow10(_)
Pow10(k) == IF k = 0 THEN 1 ELSE 10 * Pow10(k - 1)

\* ------------------------------------------------------------------ strings

\* Python's str.isspace() / regex \s on the characters the model uses.
IsSpace(ch) == ch \in {" ", "\t"}

\* Python's str.lower() on one character.
LowerChar(ch) ==
    CASE ch = "A" -> "a"
      [] ch = "B" -> "b"
      [] ch = "E" -> "e"
      [] ch = "L" -> "l"
      [] ch = "N" -> "n"
      [] ch = "O" -> "o"
      [] ch = "U" -> "u"
      [] OTHER -> ch

\* Series.str.lower()
StrLower(s) == [i \in 1..Len(s) |-> LowerChar(s[i])]

RECURSIVE LStrip(_)
LStrip(s) == IF s # <<>> /\ IsSpace(Head(s)) THEN LStrip(Tail(s)) ELSE s

RECURSIVE RStrip(_)
RStrip(s) ==
    IF s # <<>> /\ IsSpace(s[Len(s)]) THEN RStrip(SubSeq(s, 1, Len(s) - 1)) ELSE s

\* A slip: lstrip() in place of strip().
StrStrip_left_only(s) == LStrip(s)

\* Series.str.strip(): leading and trailing whitespace removed.
StrStrip(s) == RStrip(LStrip(s))

\* Series.str.replace(r'\s+', ' ', regex=True): every maximal run of
\* whitespace becomes one space.
RECURSIVE CollapseSpaces(_)
CollapseSpaces(s) ==
    IF s = <<>> THEN <<>>
    ELSE IF IsSpace(Head(s))
         THEN <<" ">> \o CollapseSpaces(LStrip(s))
         ELSE <<Head(s)>> \o CollapseSpaces(Tail(s))

\* -------------------------------------------------------------------- cells

StrCell(s) == [kind |-> "str", s |-> s, n |-> 0]
NanCell == [kind |-> "nan", s |-> <<>>, n |-> 0]
NACell == [kind |-> "NA", s |-> <<>>, n |-> 0]
FloatCell(n) == [kind |-> "float", s |-> <<>>, n |-> n]
IntCell(n) == [kind |-> "int", s |-> <<>>, n |-> n]

\* Series.isnull() on one cell.
IsNull(c) == c.kind \in {"nan", "NA"}

\* Series.astype(str) on one cell of an object column: str() of the value,
\* so NaN reads "nan" and pd.NA reads "<NA>".
AsTypeStr(c) ==
    CASE c.kind = "str" -> c.s
      [] c.kind = "nan" -> <<"n", "a", "n">>
      [] c.kind = "NA" -> <<"<", "N", "A", ">">>
      [] OTHER -> <<>>

\* A slip: the empty string left out of the dictionary.
MissingSpellings_no_empty ==
    { <<"n", "a", "n">>, <<"n", "o", "n", "e">>, <<"n", "u", "l", "l">> }

\* The keys of the replace({...: pd.NA}) dictionary.
MissingSpellings ==
    { <<"n", "a", "n">>, <<"n", "o", "n", "e">>, <<>>, <<"n", "u", "l", "l">> }

\* Series.replace({'nan': pd.NA, 'none': pd.NA, '': pd.NA, 'null': pd.NA})
ReplaceMissing(s) == IF s \in MissingSpellings THEN NACell ELSE StrCell(s)

\* One cell of an object column through lines 112-121.
NormalizeObject(c) == ReplaceMissing(CollapseSpaces(StrLower(StrStrip(AsTypeStr(c)))))

\* numpy's round half to even of a / b, b > 0.
RoundHalfEven(a, b) ==
    LET q == a \div b
        r == a % b
    IN  IF 2 * r < b THEN q
        ELSE IF 2 * r > b THEN q + 1
        ELSE IF q % 2 = 0 THEN q ELSE q + 1

\* A slip: the float column left as it is.
RoundFloat_skipped(c) == c

\* Series.round(6) on one cell of a float column; NaN stays NaN.
RoundFloat(c) ==
    IF c.kind = "float"
    THEN LET u == Pow10(InputDecimals - RoundDecimals)
         IN  FloatCell(u * RoundHalfEven(c.n, u))
    ELSE c

\* One cell of a selected column, by the column's dtype (lines 110-126).
NormalizeCell(dtype, c) ==
    IF dtype = "object" THEN NormalizeObject(c)
    ELSE IF dtype \in {"float64", "float32"} THEN RoundFloat(c)
    ELSE c

\* ------------------------------------------------------------------- tables

Range(f) == { f[x] : x \in DOMAIN f }

\* The rows of s at the positions where keep is TRUE, in order.
RECURSIVE Filter(_, _)
Filter(s, keep) ==
    IF s = <<>> THEN <<>>
    ELSE (IF Head(keep) THEN <<Head(s)>> ELSE <<>>) \o Filter(Tail(s), Tail(keep))

\* DataFrame.head(n)
DfHead(df, n) ==
    [df EXCEPT !.data = SubSeq(df.data, 1, IF Len(df.data) < n THEN Len(df.data) ELSE n)]

\* df[mask]: the rows whose mask entry is TRUE, with their index labels.
BoolIndex(df, m) == [df EXCEPT !.data = Filter(df.data, m)]

\* A slip: the negation left out, so cleaned is df[mask] again.
Invert_forgotten(m) == m

\* ~mask
Invert(m) == [i \in 1..Len(m) |-> ~m[i]]

\* len(df), len(df.columns), df.empty
NRows(df) == Len(df.data)
NCols(df) == Len(df.columns)
DfEmpty(df) == NRows(df) = 0 \/ NCols(df) = 0

\* The tuple of row i's values in the subset columns, which duplicated()
\* hashes; missing values hash alike.
KeyOf(df, subset, i) == [k \in 1..Len(subset) |-> df.data[i].cells[subset[k]]]

\* DataFrame.duplicated(subset, keep), keep one of "first", "last", "False".
Duplicated(df, subset, keep) ==
    LET key == [i \in 1..NRows(df) |-> KeyOf(df, subset, i)]
    IN  [i \in 1..Len(key) |->
            \E j \in 1..Len(key) :
                /\ j # i
                /\ key[j] = key[i]
                /\ CASE keep = "first" -> j < i
                     [] keep = "last" -> j > i
                     [] OTHER -> TRUE]

\* A slip: keep='first' and keep='last' exchanged.
KeepOf_swapped(duplicate_type) ==
    CASE duplicate_type = "all" -> "False"
      [] duplicate_type = "except_first" -> "last"
      [] duplicate_type = "except_last" -> "first"
      [] OTHER -> "False"

\* The keep argument each duplicate_type selects (lines 334-341, 79-86).
KeepOf(duplicate_type) ==
    CASE duplicate_type = "all" -> "False"
      [] duplicate_type = "except_first" -> "first"
      [] duplicate_type = "except_last" -> "last"
      [] OTHER -> "False"

\* --------------------------------------------------------------- normalizer

normalize_data_for_comparison(df, columns) ==
    [df EXCEPT !.data =
        [i \in 1..Len(df.data) |->
            [df.data[i] EXCEPT !.cells =
                [c \in DOMAIN df.data[i].cells |->
                    IF c \in Range(columns)
                    THEN NormalizeCell(df.dtype[c], df.data[i].cells[c])
                    ELSE df.data[i].cells[c]]]]]

\* --------------------------------------------------------- quality analyzer

\* df[col] as a sequence of cells.
Column(df, col) == [i \in 1..NRows(df) |-> df.data[i].cells[col]]

\* Series.isnull().sum()
NullCount(s) == Cardinality({ i \in 1..Len(s) : IsNull(s[i]) })

\* A slip: nunique(dropna=False).
NUnique_with_missing(s) == Cardinality({ s[i] : i \in 1..Len(s) })

\* Series.nunique(): dropna defaults to True.
NUnique(s) == Cardinality({ s[i] : i \in { k \in 1..Len(s) : ~IsNull(s[k]) } })

\* Series.duplicated().sum(): keep defaults to 'first', missing equals missing.
DuplicatedCount(s) ==
    Cardinality({ i \in 1..Len(s) : \E j \in 1..(i - 1) : s[j] = s[i] })

RECURSIVE SumSeq(_)
SumSeq(s) == IF s = <<>> THEN 0 ELSE Head(s) + SumSeq(Tail(s))

\* df.isnull().sum().sum()
BlankCells(df) == SumSeq([k \in 1..NCols(df) |-> NullCount(Column(df, df.columns[k]))])

\* A percentage rounded to PctDecimals, in units of 10^-PctDecimals.  The
\* quotient by zero is no number: NaN where the dividend is a numpy scalar,
\* ZeroDivisionError where it is a Python one; DivisionByZero stands for
\* either.
Num(v) == [kind |-> "num", v |-> v]
DivisionByZero == [kind |-> "div0", v |-> 0]
Percent(a, b) ==
    IF b = 0 THEN DivisionByZero ELSE Num(RoundHalfEven(a * 100 * Pow10(PctDecimals), b))

\* The blank_percentage expression of line 48.
BlankPercentage(df) ==
    IF NRows(df) > 0 THEN Percent(BlankCells(df), NRows(df) * NCols(df)) ELSE Num(0)

\* The col_stats dictionary of one column (lines 55-61).
ColStats(df, col) ==
    [dtype |-> df.dtype[col],
     non_null_count |-> NRows(df) - NullCount(Column(df, col)),
     null_count |-> NullCount(Column(df, col)),
     unique_values |-> NUnique(Column(df, col)),
     duplicates_in_column |-> DuplicatedCount(Column(df, col))]

analyze_data_quality(df) ==
    [total_rows |-> NRows(df),
     total_columns |-> NCols(df),
     blank_cells |-> BlankCells(df),
     blank_percentage |-> BlankPercentage(df),
     column_stats |-> [c \in Range(df.columns) |-> ColStats(df, c)]]

\* ---------------------------------------------------------------- rendering

\* For each row of df, whether highlight_row gives it the duplicate style:
\* dup_mask is computed on the table handed in.
highlight_duplicates(df, subset, duplicate_type) ==
    Duplicated(df, subset, KeepOf(duplicate_type))

\* ------------------------------------------------------------------- inputs

None == <<>>
Some(x) == <<x>>

\* Text a spreadsheet cell may hold: "Ab", "ab ", "a \tb", "a b", "NONE",
\* " ", and the missing cell.
TextValues ==
    { StrCell(<<"A", "b">>),
      StrCell(<<"a", "b", " ">>),
      StrCell(<<"a", " ", "\t", "b">>),
      StrCell(<<"a", " ", "b">>),
      StrCell(<<"N", "O", "N", "E">>),
      StrCell(<<" ">>),
      NanCell }

\* 1.0000001, 1.0000004, 1.00001, 1.00011 and the missing cell.
FloatValues ==
    { FloatCell(10000001), FloatCell(10000004), FloatCell(10000100),
      FloatCell(10001100), NanCell }

IntValues == { IntCell(1), IntCell(2) }

\* The rows a sheet of each layout may hold.
TextRows == { [c \in {"name"} |-> v] : v \in TextValues }
FloatRows == { [c \in {"score"} |-> v] : v \in FloatValues }
MixedRows ==
    { [c \in {"id", "name"} |-> IF c = "id" THEN i ELSE v] :
        i \in IntValues, v \in {StrCell(<<"A", "b">>), StrCell(<<"a", "b", " ">>), NanCell} }

\* Sequences of at most n elements of S.
SeqUpTo(S, n) == UNION { [1..k -> S] : k \in 0..n }

\* The loader's DataFrame: a RangeIndex, the dtype inferred per column.
Frame(columns, dtype, cells) ==
    [columns |-> columns,
     dtype |-> dtype,
     data |-> [i \in 1..Len(cells) |-> [index |-> i - 1, cells |-> cells[i]]]]

TextTables ==
    { Frame(<<"name">>, [c \in {"name"} |-> "object"], r) : r \in SeqUpTo(TextRows, MaxRows) }
FloatTables ==
    { Frame(<<"score">>, [c \in {"score"} |-> "float64"], r) : r \in SeqUpTo(FloatRows, MaxRows) }
MixedTables ==
    { Frame(<<"id", "name">>, [c \in {"id", "name"} |-> IF c = "id" THEN "int64" ELSE "object"], r) :
        r \in SeqUpTo(MixedRows, MaxRows) }

\* A sheet one row longer than the preview: "a b", then "Ab" and "ab " in
\* turn, and "a b" again in the row past the preview.
LongTable ==
    Frame(<<"name">>, [c \in {"name"} |-> "object"],
          [i \in 1..(PreviewRows + 1) |->
              [c \in {"name"} |->
                  IF i \in {1, PreviewRows + 1} THEN StrCell(<<"a", " ", "b">>)
                  ELSE IF i % 2 = 0 THEN StrCell(<<"A", "b">>)
                  ELSE StrCell(<<"a", "b", " ">>)]])

\* What the user's file may hold.
Tables == TextTables \cup FloatTables \cup MixedTables \cup {LongTable}

\* The selected_columns a form may post for a table: nothing, a column that
\* is not in the table, each column, all columns, and a mix.
Selections(df) ==
    { <<>>, <<"ghost">>, df.columns, <<"ghost">> \o df.columns }
        \cup { <<df.columns[k]>> : k \in 1..Len(df.columns) }

\* The duplicate_type a form may post.
DuplicateTypes == { "all", "except_first", "except_last", "other" }

\* ---------------------------------------------------------------- the state

VARIABLES
    user_file,          \* the table in the file the user uploads
    session,            \* [file_path, download_path], "" for an absent key
    disk,               \* the paths that exist under uploads/ and results/
    response,           \* what the last request returned
    flashed,            \* the message the last request flashed, "" for none
    error_msg,          \* index: rendered error_msg, "" for None
    success_msg,        \* index: rendered success_msg, "" for None
    analysis,           \* index: the Analysis Record, None or Some
    sheet_preview_html, \* index: the preview, None or Some
    duplicates_html,    \* index: the duplicate listing, None or Some
    data_stats,         \* index: None or Some
    duplicate_type,     \* index: the policy of the request
    selected_columns,   \* index: the rendered selected_columns
    valid_columns,      \* index: the selected columns found in the table
    mask,               \* index: the duplicate mask, None or Some
    duplicates,         \* index: df[mask], None or Some
    cleaned_df,         \* index: df[~mask], None or Some
    call,               \* the last direct call of a core function
    analysed_since_reset \* history: a request of this session completed a
                        \* duplicate analysis and no reset followed it

vars ==
    << user_file, session, disk, response, flashed, error_msg, success_msg,
       analysis, sheet_preview_html, duplicates_html, data_stats, duplicate_type,
       selected_columns, valid_columns, mask, duplicates, cleaned_df, call,
       analysed_since_reset >>

\* One path stands for each timestamp-qualified name of the latest request.
UploadPath == "uploads/file"
ZipPath == "results/Duplicate_Analysis_Report.zip"
SummaryPath == "results/Analysis_Summary.xlsx"
OriginalPath == "results/Original_Data.xlsx"
DuplicatesPath == "results/Duplicates_Only.xlsx"
CleanedPath == "results/Cleaned_Data.xlsx"

NoCall == [fn |-> "none", arg |-> None, columns |-> <<>>, result |-> None, fed_back |-> FALSE]

\* The locals index() starts from (lines 231-243), with those of the
\* analysis branch.
Locals ==
    [error_msg |-> "", success_msg |-> "", analysis |-> None,
     sheet_preview_html |-> None, duplicates_html |-> None, data_stats |-> None,
     duplicate_type |-> "all", selected_columns |-> <<>>, valid_columns |-> <<>>,
     mask |-> None,
     duplicates |-> None, cleaned_df |-> None]

\* The request ends with these locals.
Return(resp, flash, l) ==
    /\ response' = resp
    /\ flashed' = flash
    /\ error_msg' = l.error_msg
    /\ success_msg' = l.success_msg
    /\ analysis' = l.analysis
    /\ sheet_preview_html' = l.sheet_preview_html
    /\ duplicates_html' = l.duplicates_html
    /\ data_stats' = l.data_stats
    /\ duplicate_type' = l.duplicate_type
    /\ selected_columns' = l.selected_columns
    /\ valid_columns' = l.valid_columns
    /\ mask' = l.mask
    /\ duplicates' = l.duplicates
    /\ cleaned_df' = l.cleaned_df

WebInit ==
    /\ session = [file_path |-> "", download_path |-> ""]
    /\ disk = {}
    /\ response = "none"
    /\ flashed = ""
    /\ error_msg = ""
    /\ success_msg = ""
    /\ analysis = None
    /\ sheet_preview_html = None
    /\ duplicates_html = None
    /\ data_stats = None
    /\ duplicate_type = "all"
    /\ selected_columns = <<>>
    /\ valid_columns = <<>>
    /\ mask = None
    /\ duplicates = None
    /\ cleaned_df = None
    /\ analysed_since_reset = FALSE

\* What the user's file holds in the specification of the whole application.
WebTables ==
    { Frame(<<"name">>, [c \in {"name"} |-> "object"], r) :
        r \in SeqUpTo({ [c \in {"name"} |-> v] :
                           v \in {StrCell(<<"A", "b">>), StrCell(<<"a", "b", " ">>)} }, MaxRows) }
        \cup {LongTable}

Init ==
    /\ user_file \in WebTables
    /\ WebInit
    /\ call = NoCall

\* ------------------------------------------------------------------- index

\* valid_columns = [col for col in selected_columns if col in df.columns]
ValidColumns(selected, df) ==
    Filter(selected,
           [k \in 1..Len(selected) |-> selected[k] \in Range(df.columns)])

\* The mask of lines 331-341: duplicated() of the normalized table.
DuplicateMask(df, columns, dtype) ==
    Duplicated(normalize_data_for_comparison(df, columns), columns, KeepOf(dtype))

\* round(len(duplicates) / len(df) * 100, 2) if len(df) > 0 else 0
RemovalPercentage(n_duplicates, n_rows) ==
    IF n_rows > 0 THEN Percent(n_duplicates, n_rows) ELSE Num(0)

\* The styled preview of line 358 and the plain one of line 379: the rows
\* shown and, for each, whether it carries the duplicate highlight.
StyledPreview(df, columns, dtype) ==
    [styled |-> TRUE,
     rows |-> DfHead(df, PreviewRows).data,
     highlight |-> highlight_duplicates(DfHead(df, PreviewRows), columns, dtype)]
PlainPreview(df) ==
    [styled |-> FALSE,
     rows |-> DfHead(df, PreviewRows).data,
     highlight |-> [i \in 1..Len(DfHead(df, PreviewRows).data) |-> FALSE]]

\* The files create_enhanced_reports leaves under results/.
ReportFiles(duplicates_df) ==
    {SummaryPath, OriginalPath, CleanedPath, ZipPath}
        \cup (IF duplicates_df.data # <<>> THEN {DuplicatesPath} ELSE {})

MismatchMsg == "Selected columns not found in the data. Please check column names."

\* The analysis branch (lines 329-372) and the preview-only branch (377-381).
Analyse(df, selected, dtype, l) ==
    LET a == analyze_data_quality(df)
        valid == ValidColumns(selected, df)
        m == DuplicateMask(df, valid, dtype)
        dup == BoolIndex(df, m)
        cleaned == BoolIndex(df, Invert(m))
    IN  IF valid # <<>>
        THEN [l EXCEPT
                !.analysis = Some(a),
                !.valid_columns = valid,
                !.mask = Some(m),
                !.duplicates = Some(dup),
                !.cleaned_df = Some(cleaned),
                !.duplicates_html =
                    IF dup.data # <<>> THEN Some(DfHead(dup, DupListRows).data) ELSE None,
                !.success_msg =
                    IF dup.data # <<>> THEN "Analysis complete! Found duplicate rows."
                    ELSE "Great! No duplicates found with the selected criteria.",
                !.sheet_preview_html = Some(StyledPreview(df, valid, dtype)),
                !.data_stats =
                    Some([total_rows |-> NRows(df),
                          total_columns |-> NCols(df),
                          blank_cells |-> a.blank_cells,
                          duplicate_rows |-> NRows(dup),
                          cleaned_rows |-> NRows(cleaned),
                          removal_percentage |-> RemovalPercentage(NRows(dup), NRows(df))])]
        ELSE [l EXCEPT
                !.analysis = Some(a),
                !.valid_columns = valid,
                !.sheet_preview_html = Some(PlainPreview(df)),
                !.error_msg = IF selected # <<>> THEN MismatchMsg ELSE l.error_msg]

\* Lines 371-372 run in the analysis branch alone: the report files are
\* written and the session remembers the archive.
DiskAfter(disk1, l) ==
    IF l.valid_columns # <<>> THEN disk1 \cup ReportFiles(l.duplicates[1]) ELSE disk1
\* A slip: line 372 moved out of the analysis branch.
SessionAfter_always(session1, l) == [session1 EXCEPT !.download_path = ZipPath]

SessionAfter(session1, l) ==
    IF l.valid_columns # <<>> THEN [session1 EXCEPT !.download_path = ZipPath] ELSE session1

\* GET /
index_get ==
    /\ Return("index.html", "", Locals)
    /\ UNCHANGED << user_file, session, disk, call, analysed_since_reset >>

\* POST /: file1 is "none" (no file part), "table" (the user's file),
\* "bad_extension" or "too_large".  The file decodes, holds one sheet, and
\* its column names are already trimmed strings.
index_post(file1, selected, dtype) ==
    LET saved == file1 = "table"
        filepath == IF saved THEN UploadPath ELSE session.file_path
        session1 == IF saved THEN [session EXCEPT !.file_path = UploadPath] ELSE session
        disk1 == IF saved THEN disk \cup {UploadPath} ELSE disk
        df == user_file
        l0 == [Locals EXCEPT
                 !.duplicate_type = dtype,
                 !.selected_columns = selected,
                 !.success_msg = IF saved THEN "File uploaded successfully!" ELSE ""]
        l1 == Analyse(df, selected, dtype, l0)
    IN  /\ UNCHANGED << user_file, call >>
        /\ IF file1 = "bad_extension"
           THEN /\ Return("index.html", "",
                          [Locals EXCEPT !.error_msg = "Please upload a valid Excel file (.xlsx, .xls) or CSV file."])
                /\ UNCHANGED << session, disk, analysed_since_reset >>
           ELSE IF file1 = "too_large"
           THEN /\ Return("index.html", "", [Locals EXCEPT !.error_msg = "File too large."])
                /\ UNCHANGED << session, disk, analysed_since_reset >>
           ELSE IF filepath = "" \/ filepath \notin disk1
           THEN /\ Return("index.html", "",
                          [Locals EXCEPT !.error_msg = "Please upload an Excel file first."])
                /\ session' = session1
                /\ disk' = disk1
                /\ UNCHANGED analysed_since_reset
           ELSE IF DfEmpty(df)
           THEN /\ Return("index.html", "",
                          [Locals EXCEPT !.error_msg = "The selected sheet/file is empty."])
                /\ session' = session1
                /\ disk' = disk1
                /\ UNCHANGED analysed_since_reset
           ELSE \E l \in {l1} :
                /\ Return("index.html", "", l)
                /\ session' = SessionAfter(session1, l)
                /\ disk' = DiskAfter(disk1, l)
                /\ analysed_since_reset' = (analysed_since_reset \/ l.valid_columns # <<>>)

\* ---------------------------------------------------------- download, reset

NoReportMsg == "No report available for download. Please analyze data first."
ResetMsg == "Session reset successfully!"

download ==
    /\ IF session.download_path # "" /\ session.download_path \in disk
       THEN Return("send_file", "", Locals)
       ELSE Return("redirect", NoReportMsg, Locals)
    /\ UNCHANGED << user_file, session, disk, call, analysed_since_reset >>

\* A slip: only the uploaded file is cleaned up, session.pop("file_path")
\* in place of session.clear().
reset_forgets_report ==
    /\ disk' = disk \ {session.file_path}
    /\ session' = [session EXCEPT !.file_path = ""]
    /\ Return("redirect", ResetMsg, Locals)
    /\ analysed_since_reset' = FALSE
    /\ UNCHANGED << user_file, call >>

reset ==
    /\ disk' = disk \ {session.file_path, session.download_path}
    /\ session' = [file_path |-> "", download_path |-> ""]
    /\ Return("redirect", ResetMsg, Locals)
    /\ analysed_since_reset' = FALSE
    /\ UNCHANGED << user_file, call >>

\* The posts a form may make once the extension and size checks pass.
index_post_any(files) ==
    \E file1 \in files, selected \in Selections(user_file), dtype \in DuplicateTypes :
        index_post(file1, selected, dtype)

\* A post whose file part fails the extension or the size check.
index_post_rejected ==
    \E file1 \in {"bad_extension", "too_large"} : index_post(file1, <<>>, "all")

index == index_get \/ index_post_rejected \/ index_post_any({"none", "table"})

Next == index \/ download \/ reset

Spec == Init /\ [][Next]_vars

\* ------------------------------------------- one request: upload and analyse

\* The first request of a fresh session posts the file together with the
\* selection and the policy, over every table of Tables.
AnalysisInit ==
    /\ user_file \in Tables
    /\ WebInit
    /\ call = NoCall

upload_and_analyse ==
    /\ response = "none"
    /\ index_post_any({"table"})

AnalysisNext == upload_and_analyse

SpecAnalysis == AnalysisInit /\ [][AnalysisNext]_vars

\* ----------------------------------------------- the core functions, called

\* A table with rows and no column.
BareTables ==
    { Frame(<<>>, [c \in {} |-> "object"], r) : r \in SeqUpTo({[c \in {} |-> NanCell]}, MaxRows) }

\* The tables a caller may hand a core function.
FnTables == Tables \cup BareTables

FnInit ==
    /\ user_file \in FnTables
    /\ WebInit
    /\ call = NoCall

\* analyze_data_quality(user_file)
call_analyze ==
    /\ call' = [fn |-> "analyze_data_quality", arg |-> Some(user_file), columns |-> <<>>,
                result |-> Some(analyze_data_quality(user_file)), fed_back |-> FALSE]
    /\ UNCHANGED << user_file, session, disk, response, flashed, error_msg, success_msg,
                    analysis, sheet_preview_html, duplicates_html, data_stats,
                    duplicate_type, selected_columns, valid_columns, mask, duplicates,
                    cleaned_df, analysed_since_reset >>

\* normalize_data_for_comparison(user_file, columns)
call_normalize ==
    /\ \E columns \in Selections(user_file) :
          call' = [fn |-> "normalize_data_for_comparison", arg |-> Some(user_file),
                   columns |-> columns,
                   result |-> Some(normalize_data_for_comparison(user_file, columns)),
                   fed_back |-> FALSE]
    /\ UNCHANGED << user_file, session, disk, response, flashed, error_msg, success_msg,
                    analysis, sheet_preview_html, duplicates_html, data_stats,
                    duplicate_type, selected_columns, valid_columns, mask, duplicates,
                    cleaned_df, analysed_since_reset >>

\* normalize_data_for_comparison applied to its own output, same columns.
call_normalize_again ==
    /\ call.fn = "normalize_data_for_comparison"
    /\ ~call.fed_back
    /\ call' = [call EXCEPT
                  !.arg = call.result,
                  !.result = Some(normalize_data_for_comparison(call.result[1], call.columns)),
                  !.fed_back = TRUE]
    /\ UNCHANGED << user_file, session, disk, response, flashed, error_msg, success_msg,
                    analysis, sheet_preview_html, duplicates_html, data_stats,
                    duplicate_type, selected_columns, valid_columns, mask, duplicates,
                    cleaned_df, analysed_since_reset >>

FnNext == call_analyze \/ call_normalize \/ call_normalize_again

SpecFn == FnInit /\ [][FnNext]_vars

\* ------------------------------------------------------------------- claims
\* C1-C4, C7 and C10 are read on the state a request leaves under
\* SpecAnalysis; C8 on the steps of Spec; C5, C6 and C9 on the calls of
\* SpecFn.

\* The last request ran the duplicate analysis.
Analysed == response = "index.html" /\ mask # None

\* The positions of a sequence.
Pos(s) == 1..Len(s)

\* The index labels of the rows of a subset, in the subset's order.
Labels(sub) == [k \in Pos(sub.data) |-> sub.data[k].index]

\* sub holds exactly the rows of the table at the positions in P: each row
\* as the table has it, once, in the table's order.
HoldsExactly(sub, P) ==
    /\ \A k \in Pos(sub.data) :
          /\ sub.data[k].index + 1 \in P
          /\ sub.data[k] = user_file.data[sub.data[k].index + 1]
    /\ \A k, n \in Pos(sub.data) : k < n => sub.data[k].index < sub.data[n].index
    /\ \A i \in P : \E k \in Pos(sub.data) : sub.data[k].index + 1 = i

\* C1: the analysis splits the table exactly: every row, with its original
\* cell values and in original order, is in duplicates when its mask entry
\* is true and in cleaned when it is false, in one of them only, and the two
\* lengths add up to the table's.
C1_ExactSplit ==
    Analysed =>
        LET m == mask[1]
            flagged == { i \in Pos(m) : m[i] }
        IN  /\ Len(m) = NRows(user_file)
            /\ HoldsExactly(duplicates[1], flagged)
            /\ HoldsExactly(cleaned_df[1], Pos(m) \ flagged)
            /\ NRows(duplicates[1]) + NRows(cleaned_df[1]) = NRows(user_file)
            /\ Range(Labels(duplicates[1])) \cap Range(Labels(cleaned_df[1])) = {}

\* C1's case: both subsets are non-empty and normalization changed a key
\* value of a flagged row, which duplicates shows as the file has it.
C1_Witness ==
    /\ Analysed
    /\ NRows(duplicates[1]) > 0
    /\ NRows(cleaned_df[1]) > 0
    /\ \E k \in Pos(duplicates[1].data) :
          LET i == duplicates[1].data[k].index + 1
          IN  normalize_data_for_comparison(user_file, valid_columns).data[i]
                  # user_file.data[i]

\* The normalized key of row i under the request's key columns.
NormKey(i) == KeyOf(normalize_data_for_comparison(user_file, valid_columns), valid_columns, i)

\* The rows whose normalized key equals row i's.
Group(i) == { j \in Pos(user_file.data) : NormKey(j) = NormKey(i) }

Min(S) == CHOOSE x \in S : \A y \in S : x <= y
Max(S) == CHOOSE x \in S : \A y \in S : x >= y

\* C2: the mask follows the retention policy over the groups of equal
\* normalized keys: all flags every member of a group of two or more;
\* except_first (except_last) leaves exactly the first (last) member of
\* such a group unflagged; a group of one is never flagged.
C2_MaskFollowsPolicy ==
    Analysed =>
        LET m == mask[1]
        IN  \A i \in Pos(m) :
              LET g == Group(i)
                  unflagged == { j \in g : ~m[j] }
              IN  /\ Cardinality(g) = 1 => ~m[i]
                  /\ duplicate_type = "all" => (m[i] <=> Cardinality(g) >= 2)
                  /\ (duplicate_type = "except_first" /\ Cardinality(g) >= 2)
                        => unflagged = {Min(g)}
                  /\ (duplicate_type = "except_last" /\ Cardinality(g) >= 2)
                        => unflagged = {Max(g)}

\* C2's case: a group of three under except_last, beside nothing else, or a
\* group of two with a row of another key under except_first.
C2_Witness ==
    /\ Analysed
    /\ \/ /\ duplicate_type = "except_last"
          /\ mask[1] = <<TRUE, TRUE, FALSE>>
       \/ /\ duplicate_type = "except_first"
          /\ mask[1] = <<FALSE, FALSE, TRUE>>

\* The words of a text, lower-cased: its maximal runs of non-whitespace.
RECURSIVE Words(_, _)
Words(s, word) ==
    IF s = <<>> THEN (IF word = <<>> THEN <<>> ELSE <<word>>)
    ELSE IF IsSpace(Head(s))
         THEN (IF word = <<>> THEN <<>> ELSE <<word>>) \o Words(Tail(s), <<>>)
         ELSE Words(Tail(s), Append(word, LowerChar(Head(s))))

\* Two text cells that differ at most in letter case, in leading or trailing
\* whitespace, or in their internal runs of whitespace.
SameText(a, b) == a.kind = "str" /\ b.kind = "str" /\ Words(a.s, <<>>) = Words(b.s, <<>>)

\* What a policy does to two rows i < j of one group.
FlaggedAsPair(i, j) ==
    /\ duplicate_type \in {"all", "other"} => mask[1][i] /\ mask[1][j]
    /\ duplicate_type = "except_first" => mask[1][j]
    /\ duplicate_type = "except_last" => mask[1][i]

TextKeyColumns == { c \in Range(valid_columns) : user_file.dtype[c] = "object" }

\* Rows i and j agree on every key column, up to SameText on the textual ones.
AgreeUpToText(i, j) ==
    \A c \in Range(valid_columns) :
        LET a == user_file.data[i].cells[c]
            b == user_file.data[j].cells[c]
        IN  a = b \/ (c \in TextKeyColumns /\ SameText(a, b))

\* C3: rows whose textual key values differ only in letter case, in leading
\* or trailing whitespace or in the length of internal whitespace runs get
\* the same normalized key and are flagged as members of one group.
C3_CaseWhitespaceInvariance ==
    Analysed =>
        \A i, j \in Pos(user_file.data) :
            (i < j /\ AgreeUpToText(i, j)) => (NormKey(i) = NormKey(j) /\ FlaggedAsPair(i, j))

\* C3's case: two rows whose texts differ, in case and in whitespace, are
\* both flagged under all.
C3_Witness ==
    /\ Analysed
    /\ duplicate_type = "all"
    /\ valid_columns = <<"name">>
    /\ \E i, j \in Pos(user_file.data) :
          /\ i < j
          /\ user_file.data[i].cells["name"] = StrCell(<<"A", "b">>)
          /\ user_file.data[j].cells["name"] = StrCell(<<"a", "b", " ">>)
          /\ mask[1][i]
          /\ mask[1][j]

\* A cell of a textual column that stands for no value: a true null, or a
\* text that trimmed and lower-cased reads nan, none, null or nothing.
MissingLike(c) ==
    \/ c.kind = "nan"
    \/ /\ c.kind = "str"
       /\ LET w == Words(c.s, <<>>)
          IN  \/ w = <<>>
              \/ w \in { << <<"n", "a", "n">> >>, << <<"n", "o", "n", "e">> >>,
                         << <<"n", "u", "l", "l">> >> }

\* Every key value of row i is a missing one of a textual column.
AllMissing(i) ==
    /\ Range(valid_columns) \subseteq TextKeyColumns
    /\ \A c \in Range(valid_columns) : MissingLike(user_file.data[i].cells[c])

\* C4: in a textual key column a true null and every spelling of no value
\* normalize to the one missing marker, and the rows whose key values are
\* all missing form one group, flagged by the policy like any other group.
C4_MissingComparesEqual ==
    Analysed =>
        /\ \A i \in Pos(user_file.data) :
              AllMissing(i) => \A k \in Pos(valid_columns) : NormKey(i)[k] = NACell
        /\ \A i, j \in Pos(user_file.data) :
              (i < j /\ AllMissing(i) /\ AllMissing(j))
                  => (NormKey(i) = NormKey(j) /\ FlaggedAsPair(i, j))
        /\ \A i \in Pos(user_file.data) :
              (AllMissing(i) /\ \A j \in Pos(user_file.data) : j # i => ~AllMissing(j))
                  => ~mask[1][i]

\* C4's case: a true null, a blank text and the text NONE are one group of
\* three, the last two flagged under except_first.
C4_Witness ==
    /\ Analysed
    /\ duplicate_type = "except_first"
    /\ valid_columns = <<"name">>
    /\ Column(user_file, "name") = <<NanCell, StrCell(<<" ">>), StrCell(<<"N", "O", "N", "E">>)>>
    /\ mask[1] = <<FALSE, TRUE, TRUE>>

\* C5: normalization applied to its own output, with the same columns,
\* gives that output again.
C5_Idempotent ==
    (call.fn = "normalize_data_for_comparison" /\ call.fed_back) => call.result = call.arg

\* C6: blank_percentage is a number in [0, 100], the missing cells over
\* rows times columns, times 100, and 0 when the table has no row or no
\* column.
C6_BlankPercentage ==
    call.fn = "analyze_data_quality" =>
        LET df == call.arg[1]
            p == call.result[1].blank_percentage
            cells == NRows(df) * NCols(df)
        IN  /\ p.kind = "num"
            /\ 0 <= p.v
            /\ p.v <= 100 * Pow10(PctDecimals)
            /\ cells = 0 => p.v = 0
            /\ cells > 0 =>
                  \* p.v is the nearest multiple of 10^-PctDecimals
                  2 * (p.v * cells - call.result[1].blank_cells * 100 * Pow10(PctDecimals)) <= cells
                  /\ 2 * (call.result[1].blank_cells * 100 * Pow10(PctDecimals) - p.v * cells) <= cells

\* The multiple of 10^-RoundDecimals nearest to a float value.
Nearest6(n) ==
    LET u == Pow10(InputDecimals - RoundDecimals)
        lo == n \div u
    IN  CHOOSE k \in {lo, lo + 1} :
            \A k2 \in {lo, lo + 1} :
                (IF n >= u * k THEN n - u * k ELSE u * k - n)
                    <= (IF n >= u * k2 THEN n - u * k2 ELSE u * k2 - n)

\* Two cells of a float column are the same after rounding to 6 places.
SameRounded(a, b) ==
    \/ a.kind = "nan" /\ b.kind = "nan"
    \/ a.kind = "float" /\ b.kind = "float" /\ Nearest6(a.n) = Nearest6(b.n)

\* C7: in a floating-point key column two values are the same key exactly
\* when they are equal after rounding to 6 places, so 1.0000001 and
\* 1.0000004 are one group and 1.00001 and 1.00011 are not; integer key
\* values are the same key exactly when they are equal.
C7_FloatTolerance ==
    Analysed =>
        \A i, j \in Pos(user_file.data) :
            /\ (i < j /\ valid_columns = <<"score">>) =>
                  LET a == user_file.data[i].cells["score"]
                      b == user_file.data[j].cells["score"]
                  IN  /\ (NormKey(i) = NormKey(j)) <=> SameRounded(a, b)
                      /\ SameRounded(a, b) => FlaggedAsPair(i, j)
                      /\ ({a.n, b.n} = {10000001, 10000004}) => NormKey(i) = NormKey(j)
                      /\ ({a.n, b.n} = {10000100, 10001100}) => NormKey(i) # NormKey(j)
            /\ (i < j /\ valid_columns = <<"id">>) =>
                  /\ (NormKey(i) = NormKey(j))
                        <=> (user_file.data[i].cells["id"].n = user_file.data[j].cells["id"].n)
                  /\ NormKey(i) = <<user_file.data[i].cells["id"]>>

\* C7's case: 1.0000001 and 1.0000004 are flagged as one group while
\* 1.00011 beside them is not.
C7_Witness ==
    /\ Analysed
    /\ duplicate_type = "all"
    /\ valid_columns = <<"score">>
    /\ Column(user_file, "score") = <<FloatCell(10000001), FloatCell(10001100), FloatCell(10000004)>>
    /\ mask[1] = <<TRUE, FALSE, TRUE>>

ReportPaths == {ZipPath, SummaryPath, OriginalPath, DuplicatesPath, CleanedPath}

\* C8: a request whose non-empty selection names no column of the loaded
\* table computes no mask and no subset, writes no report file and leaves
\* download_path as it was; it renders the Analysis Record, the plain
\* preview of the first 20 rows and the error message.
C8_SelectionMismatch ==
    [][ ( /\ response' = "index.html"
          /\ selected_columns' # <<>>
          /\ Range(selected_columns') \cap Range(user_file.columns) = {} )
        => ( /\ mask' = None
             /\ duplicates' = None
             /\ cleaned_df' = None
             /\ disk' \cap ReportPaths = disk \cap ReportPaths
             /\ session'.download_path = session.download_path
             /\ analysis' = Some(analyze_data_quality(user_file))
             /\ sheet_preview_html' # None
             /\ ~sheet_preview_html'[1].styled
             /\ sheet_preview_html'[1].rows =
                    SubSeq(user_file.data, 1,
                           IF NRows(user_file) < PreviewRows THEN NRows(user_file) ELSE PreviewRows)
             /\ \A i \in Pos(sheet_preview_html'[1].highlight) : ~sheet_preview_html'[1].highlight[i]
             /\ error_msg' = MismatchMsg ) ]_vars

\* C8's case: the mismatch follows an analysis, whose archive is still the
\* session's download_path, on a table longer than the preview.
C8_Witness ==
    /\ response = "index.html"
    /\ selected_columns = <<"ghost">>
    /\ error_msg = MismatchMsg
    /\ mask = None
    /\ NRows(user_file) > PreviewRows
    /\ sheet_preview_html # None
    /\ Len(sheet_preview_html[1].rows) = PreviewRows
    /\ session.download_path = ZipPath
    /\ ZipPath \in disk

\* The column stats of the analyzed table hold over every column.
ColumnStatsHold(P(_, _)) ==
    call.fn = "analyze_data_quality" =>
        \A c \in Range(call.arg[1].columns) :
            P(Column(call.arg[1], c), call.result[1].column_stats[c])

\* The values of a column, missing cells left out.
Present(s) == { s[i] : i \in { k \in Pos(s) : ~IsNull(s[k]) } }
HasMissing(s) == \E i \in Pos(s) : IsNull(s[i])

\* The occurrences beyond the first of each value of a column, missing
\* counted as a value.
Repeats(s) == Len(s) - Cardinality(Range(s))

AsStated(s, stats) ==
    /\ stats.unique_values = Cardinality(Present(s)) + (IF HasMissing(s) THEN 1 ELSE 0)
    /\ stats.duplicates_in_column = Repeats(s)

Amended(s, stats) ==
    /\ stats.unique_values = Cardinality(Present(s))
    /\ stats.duplicates_in_column = Repeats(s)
    /\ stats.unique_values + stats.duplicates_in_column
          = Len(s) - (IF HasMissing(s) THEN 1 ELSE 0)

\* C9 as stated: unique_values counts missing as one distinct value when
\* the column has a missing cell, and duplicates_in_column counts the
\* occurrences beyond the first of each value.
C9_UniqueCountsMissing == ColumnStatsHold(AsStated)

\* C9 amended: unique_values counts the distinct values that are not
\* missing, so a missing cell adds nothing to it; duplicates_in_column
\* counts the occurrences beyond the first of each value, a missing cell
\* after the first missing one included.
C9_ColumnCounts == ColumnStatsHold(Amended)

\* C9's case: a column with two missing cells and a value: one distinct
\* value, one repeat.
C9_Witness ==
    /\ call.fn = "analyze_data_quality"
    /\ call.arg[1].columns = <<"name">>
    /\ Column(call.arg[1], "name") = <<NanCell, StrCell(<<"A", "b">>), NanCell>>
    /\ call.result[1].column_stats["name"].unique_values = 1
    /\ call.result[1].column_stats["name"].duplicates_in_column = 1

\* C10: a row among the first 20 carries the duplicate highlight in the
\* styled preview exactly when its entry in the duplicate mask is true.
C10_PreviewFollowsMask ==
    Analysed =>
        /\ sheet_preview_html # None
        /\ sheet_preview_html[1].styled
        /\ \A i \in Pos(sheet_preview_html[1].rows) :
              sheet_preview_html[1].highlight[i] = mask[1][i]

\* C11: over any sequence of requests of one session, download serves the
\* report only if a request completed a duplicate analysis with a valid key
\* column, which is what sets download_path, and no reset followed it; reset
\* removes the session's uploaded file and report archive and clears both
\* session keys; so a download after a reset and before the next completed
\* analysis redirects with the "No report available" warning.
C11_DownloadOnlyAfterAnalysis ==
    [][ /\ response' = "send_file" => analysed_since_reset
        /\ (session'.download_path # "" /\ session'.download_path # session.download_path)
              => (response' = "index.html" /\ mask' # None /\ valid_columns' # <<>>)
        /\ reset =>
              /\ session' = [file_path |-> "", download_path |-> ""]
              /\ session.file_path \notin disk'
              /\ session.download_path \notin disk'
        /\ (download /\ ~analysed_since_reset) =>
              (response' = "redirect" /\ flashed' = NoReportMsg) ]_vars

\* C11's case: an analysis wrote its report files, a reset removed the
\* archive and cleared the session, and the download that followed was
\* redirected with the warning.
C11_Witness ==
    /\ response = "redirect"
    /\ flashed = NoReportMsg
    /\ ~analysed_since_reset
    /\ SummaryPath \in disk
    /\ ZipPath \notin disk
    /\ UploadPath \notin disk
    /\ session = [file_path |-> "", download_path |-> ""]

====
